---- MODULE Spec2Model ----
(***************************************************************************)
(* Martial Arts Gym API (src/main.py): the request handlers of the FastAPI *)
(* application as a state machine.  One action per route; each action is   *)
(* the whole handling of one request, from dispatch to the response.       *)
(*                                                                         *)
(* Strings the code slices or lower-cases are sequences of one-character   *)
(* strings; fixed labels are TLA+ strings.  The status glyphs of the /test *)
(* labels are written in ASCII: "[ok]", "[x]", "[!]".                      *)
(***************************************************************************)
EXTENDS Integers, Sequences, FiniteSets, TLC

VARIABLES
    PROGRAMS,   \* module global PROGRAMS (a mutable Python list)
    SCHEDULE,   \* module global SCHEDULE (a mutable Python list)
    environ,    \* os.environ restricted to DATABASE_URL and DATABASE_NAME
    database,   \* what `from database import db` meets: the module's state
    store,      \* the external document store: collection name -> documents
    nextId,     \* the store's identifier generator
    initial,    \* number of "lead" records the store held at process start
    accepted,   \* number of POST /api/leads requests answered 200 so far
    req,        \* the request being served, NoRequest between requests
    resp,       \* the response to req
    inserts     \* number of create_document invocations made while handling req

vars == <<PROGRAMS, SCHEDULE, environ, database, store, nextId, initial, accepted, req, resp, inserts>>

-----------------------------------------------------------------------------
(* Bounds of the model *)

\* cap on the number of records the model lets the "lead" collection hold
MaxLeads == 2
\* largest number of names a collection listing holds
MaxColls == 12
\* longest error text the store's driver raises
MaxMsgLen == 52

-----------------------------------------------------------------------------
(* Python values *)

\* Optional[T]: None is the empty tuple, a present value x is <<x>>
None == <<>>
Some(x) == <<x>>

\* truthiness of an Optional[str], as `if day:` and `if os.getenv(..)` test it
Truthy(opt) == opt # None /\ Len(opt[1]) > 0

Uppercase == <<"A","B","C","D","E","F","G","H","I","J","K","L","M",
               "N","O","P","Q","R","S","T","U","V","W","X","Y","Z">>
Lowercase == <<"a","b","c","d","e","f","g","h","i","j","k","l","m",
               "n","o","p","q","r","s","t","u","v","w","x","y","z">>

\* the lower-case letter of each upper-case letter, and the converse
ToLower == [c \in {Uppercase[i] : i \in 1..26} |->
               Lowercase[CHOOSE i \in 1..26 : Uppercase[i] = c]]
ToUpper == [c \in {Lowercase[i] : i \in 1..26} |->
               Uppercase[CHOOSE i \in 1..26 : Lowercase[i] = c]]

LowerChar(c) == IF c \in DOMAIN ToLower THEN ToLower[c] ELSE c

UpperChar(c) == IF c \in DOMAIN ToUpper THEN ToUpper[c] ELSE c

\* str.lower()
Lower(s) == [i \in 1..Len(s) |-> LowerChar(s[i])]

\* s[:n]
Take(s, n) == IF Len(s) <= n THEN s ELSE SubSeq(s, 1, n)

Digits == <<"0","1","2","3","4","5","6","7","8","9">>

\* str(n) of a natural number
RECURSIVE StrOfNat(_)
StrOfNat(n) ==
    IF n < 10 THEN <<Digits[n + 1]>>
    ELSE StrOfNat(n \div 10) \o <<Digits[(n % 10) + 1]>>

-----------------------------------------------------------------------------
(* Static catalog *)

Program(id, title, level, description, days) ==
    [id |-> id, title |-> title, level |-> level,
     description |-> description, days |-> days]

ClassItem(id, title, instructor, day, time, level) ==
    [id |-> id, title |-> title, instructor |-> instructor,
     day |-> day, time |-> time, level |-> level]

InitPrograms == <<
    Program("kickboxing", "Kickboxing", "All Levels",
            "High-energy striking class blending boxing and Muay Thai fundamentals.",
            <<"Mon", "Wed", "Fri">>),
    Program("karate", "Karate", "Beginner to Advanced",
            "Traditional karate focusing on kihon, kata, and kumite for discipline and power.",
            <<"Tue", "Thu", "Sat">>),
    Program("kids", "Kids Martial Arts", "Ages 6-12",
            "Confidence, focus, and fitness in a fun, safe environment for kids.",
            <<"Mon", "Wed", "Sat">>) >>

InitSchedule == <<
    ClassItem("kb-mon-6pm", "Kickboxing Fundamentals", "Coach Maya", <<"M","o","n">>, "6:00 PM", "All"),
    ClassItem("kb-wed-6pm", "Kickboxing Bag Work", "Coach Tom", <<"W","e","d">>, "6:00 PM", "All"),
    ClassItem("kb-fri-6pm", "Kickboxing Sparring", "Coach Maya", <<"F","r","i">>, "6:00 PM", "Intermediate"),
    ClassItem("kar-tue-7pm", "Karate Basics", "Sensei Ken", <<"T","u","e">>, "7:00 PM", "Beginner"),
    ClassItem("kar-thu-7pm", "Karate Kata", "Sensei Ken", <<"T","h","u">>, "7:00 PM", "All"),
    ClassItem("kar-sat-10am", "Karate Kumite", "Sensei Aiko", <<"S","a","t">>, "10:00 AM", "Advanced"),
    ClassItem("kids-wed-5pm", "Kids Martial Arts", "Coach Lee", <<"W","e","d">>, "5:00 PM", "Ages 6-12") >>

-----------------------------------------------------------------------------
(* Requests and responses *)

\* a request: its route, what the client sent, and what the external store
\* does while it is handled
Request(endpoint, input, external) ==
    [endpoint |-> endpoint, input |-> input, external |-> external]
Response(status, body) == [status |-> status, body |-> body]

NoRequest == Request("", None, None)
NoResponse == Response(0, None)

\* every spelling of s in either letter case
CaseVariants(s) ==
    {t \in [1..Len(s) -> {LowerChar(s[i]) : i \in 1..Len(s)} \cup {UpperChar(s[i]) : i \in 1..Len(s)}] :
        \A i \in 1..Len(s) : t[i] \in {LowerChar(s[i]), UpperChar(s[i])}}

UnmatchedDays == {
    <<>>,
    <<"S","u","n">>,
    <<"M","o">>,
    <<"M","o","n","d","a","y">>,
    <<"M","0","n">>,
    <<" ","m","o","n">>,
    <<"m","o","n"," ">>,
    <<"%","0","0">> }

\* the `day` values a client sends: absent, spellings of the scheduled days
\* in several letter cases, and values that match no entry
DayInputs ==
    {None}
    \cup {Some(s) : s \in UNION {CaseVariants(InitSchedule[i].day) : i \in 1..Len(InitSchedule)}}
    \cup {Some(s) : s \in UnmatchedDays}

-----------------------------------------------------------------------------
(* Static content handlers *)

read_root == Response(200, [message |-> "Martial Arts Gym Backend Running"])

hello == Response(200, [message |-> "Hello from the backend API!"])

get_programs(programs) == Response(200, programs)

\* variant: [c for c in schedule if c.day == day.lower()]
RECURSIVE ComprehensionDayNotLowered(_, _)
ComprehensionDayNotLowered(schedule, day) ==
    IF schedule = <<>> THEN <<>>
    ELSE (IF Head(schedule).day = Lower(day) THEN <<Head(schedule)>> ELSE <<>>)
         \o ComprehensionDayNotLowered(Tail(schedule), day)

\* [c for c in schedule if c.day.lower() == day.lower()]
RECURSIVE Comprehension(_, _)
Comprehension(schedule, day) ==
    IF schedule = <<>> THEN <<>>
    ELSE (IF Lower(Head(schedule).day) = Lower(day) THEN <<Head(schedule)>> ELSE <<>>)
         \o Comprehension(Tail(schedule), day)

get_schedule(schedule, day) ==
    IF Truthy(day)
    THEN Response(200, Comprehension(schedule, day[1]))
    ELSE Response(200, schedule)

ReadRoot ==
    /\ req = NoRequest
    /\ req' = Request("GET /", None, None)
    /\ resp' = read_root
    /\ inserts' = 0
    /\ UNCHANGED <<PROGRAMS, SCHEDULE, environ, database, store, nextId, initial, accepted>>

Hello ==
    /\ req = NoRequest
    /\ req' = Request("GET /api/hello", None, None)
    /\ resp' = hello
    /\ inserts' = 0
    /\ UNCHANGED <<PROGRAMS, SCHEDULE, environ, database, store, nextId, initial, accepted>>

GetPrograms ==
    /\ req = NoRequest
    /\ req' = Request("GET /api/programs", None, None)
    /\ resp' = get_programs(PROGRAMS)
    /\ inserts' = 0
    /\ UNCHANGED <<PROGRAMS, SCHEDULE, environ, database, store, nextId, initial, accepted>>

\* variant: the handler filters the global list in place
GetScheduleInPlace(day) ==
    /\ req = NoRequest
    /\ req' = Request("GET /api/schedule", day, None)
    /\ resp' = get_schedule(SCHEDULE, day)
    /\ SCHEDULE' = get_schedule(SCHEDULE, day).body
    /\ inserts' = 0
    /\ UNCHANGED <<PROGRAMS, environ, database, store, nextId, initial, accepted>>

GetSchedule(day) ==
    /\ req = NoRequest
    /\ req' = Request("GET /api/schedule", day, None)
    /\ resp' = get_schedule(SCHEDULE, day)
    /\ inserts' = 0
    /\ UNCHANGED <<PROGRAMS, SCHEDULE, environ, database, store, nextId, initial, accepted>>

-----------------------------------------------------------------------------
(* Exceptions *)

\* an exception object: its class and its args
Raise(cls, args) == [cls |-> cls, args |-> args]

\* direct base class of each exception class the model raises
BaseOf(cls) ==
    CASE cls = "ModuleNotFoundError" -> "ImportError"
      [] cls = "ImportError" -> "Exception"
      [] cls = "ServerSelectionTimeoutError" -> "Exception"
      [] cls = "KeyError" -> "Exception"
      [] cls = "RuntimeError" -> "Exception"
      [] cls = "Exception" -> "BaseException"
      [] OTHER -> "object"

\* isinstance(e, clause): what `except clause` catches
RECURSIVE IsInstance(_, _)
IsInstance(cls, clause) ==
    IF cls = clause THEN TRUE
    ELSE IF cls = "object" THEN FALSE
    ELSE IsInstance(BaseOf(cls), clause)

\* str(e): no args gives '', one arg gives str(arg); KeyError gives repr(arg)
Str(e) ==
    IF Len(e.args) = 0 THEN <<>>
    ELSE IF e.cls = "KeyError" THEN <<"'">> \o e.args[1] \o <<"'">>
    ELSE e.args[1]

\* an error text of n characters
Msg(n) == [i \in 1..n |-> Digits[(i % 10) + 1]]

\* slice length of str(e)[:50]
ErrorTextLen == 50

MsgLens == {1, ErrorTextLen, ErrorTextLen + 1, MaxMsgLen}

\* what the store's driver raises when an operation fails
DriverErrors ==
    {Raise("ServerSelectionTimeoutError", <<Msg(n)>>) : n \in MsgLens}
    \cup {Raise("KeyError", <<Msg(1)>>), Raise("RuntimeError", <<>>)}

-----------------------------------------------------------------------------
(* Lead schema (schemas.Lead) and persistence adapter (database) *)

\* EmailStr: one "@", a non-empty local part, a dotted domain with non-empty
\* labels, no blanks
IsEmail(s) ==
    LET ats == {i \in 1..Len(s) : s[i] = "@"}
    IN  /\ Cardinality(ats) = 1
        /\ \A i \in 1..Len(s) : s[i] # " "
        /\ LET a == CHOOSE i \in ats : TRUE
               dots == {i \in (a + 1)..Len(s) : s[i] = "."}
           IN  /\ a > 1
               /\ dots # {}
               /\ \A i \in dots : i > a + 1 /\ i < Len(s) /\ (i + 1) \notin dots

\* fields of a request body that fail the Lead schema
ValidationErrors(body) ==
    {f \in {"name"} : body.name = None}
    \cup {f \in {"email"} : body.email = None \/ ~IsEmail(body.email[1])}

\* the Lead a valid body parses to
Lead(body) ==
    [name |-> body.name[1], email |-> body.email[1], phone |-> body.phone]

NoDatabaseError ==
    Raise("Exception", << <<"D","a","t","a","b","a","s","e"," ","n","o","t"," ",
                            "a","v","a","i","l","a","b","l","e">> >>)

\* the handle `db` of the database module, None when there is none
Handle(db_module) == IF db_module.import = "ok" THEN db_module.db ELSE None

\* create_document(collection_name, data) -> str: one insert into the named
\* collection; raises when there is no handle or when the insert fails
\* (fault is what the driver raises on this call, None when it raises nothing)
create_document(collection_name, data, db_module, docs, idgen, fault) ==
    IF Handle(db_module) = None
    THEN [raised |-> Some(NoDatabaseError), value |-> None, store |-> docs, idgen |-> idgen]
    ELSE IF fault # None
    THEN [raised |-> fault, value |-> None, store |-> docs, idgen |-> idgen]
    ELSE LET id == StrOfNat(idgen)
             doc == [_id |-> id, name |-> data.name, email |-> data.email, phone |-> data.phone]
         IN  [raised |-> None, value |-> Some(id),
              store |-> [docs EXCEPT ![collection_name] = Append(@, doc)],
              idgen |-> idgen + 1]

-----------------------------------------------------------------------------
(* Lead capture handler *)

ThanksMessage == "Thanks! We received your request and will get back to you shortly."

\* variant: the except clause answers 200 with an empty id
create_lead_swallows(lead, db_module, docs, idgen, fault) ==
    LET r == create_document("lead", lead, db_module, docs, idgen, fault)
    IN  IF r.raised = None
        THEN [resp |-> Response(200, [id |-> r.value[1], message |-> ThanksMessage]),
              store |-> r.store, idgen |-> r.idgen, inserts |-> 1]
        ELSE [resp |-> Response(200, [id |-> <<>>, message |-> ThanksMessage]),
              store |-> r.store, idgen |-> r.idgen, inserts |-> 1]

\* variant: detail is str(e)[:50], as in the diagnostics handler
create_lead_cut_detail(lead, db_module, docs, idgen, fault) ==
    LET r == create_document("lead", lead, db_module, docs, idgen, fault)
    IN  IF r.raised = None
        THEN [resp |-> Response(200, [id |-> r.value[1], message |-> ThanksMessage]),
              store |-> r.store, idgen |-> r.idgen, inserts |-> 1]
        ELSE [resp |-> Response(500, [detail |-> Take(Str(r.raised[1]), ErrorTextLen)]),
              store |-> r.store, idgen |-> r.idgen, inserts |-> 1]

\* variant: the except clause calls create_document a second time
create_lead_retries(lead, db_module, docs, idgen, fault) ==
    LET r == create_document("lead", lead, db_module, docs, idgen, fault)
        again == create_document("lead", lead, db_module, docs, idgen, fault)
    IN  IF r.raised = None
        THEN [resp |-> Response(200, [id |-> r.value[1], message |-> ThanksMessage]),
              store |-> r.store, idgen |-> r.idgen, inserts |-> 1]
        ELSE IF again.raised = None
        THEN [resp |-> Response(200, [id |-> again.value[1], message |-> ThanksMessage]),
              store |-> again.store, idgen |-> again.idgen, inserts |-> 2]
        ELSE [resp |-> Response(500, [detail |-> Str(again.raised[1])]),
              store |-> again.store, idgen |-> again.idgen, inserts |-> 2]

\* the body of create_lead: result of the request and the store it leaves
create_lead(lead, db_module, docs, idgen, fault) ==
    LET r == create_document("lead", lead, db_module, docs, idgen, fault)
    IN  IF r.raised = None
        THEN [resp |-> Response(200, [id |-> r.value[1], message |-> ThanksMessage]),
              store |-> r.store, idgen |-> r.idgen, inserts |-> 1]
        ELSE IF IsInstance(r.raised[1].cls, "Exception")
        THEN [resp |-> Response(500, [detail |-> Str(r.raised[1])]),
              store |-> r.store, idgen |-> r.idgen, inserts |-> 1]
        ELSE [resp |-> Response(500, [detail |-> <<>>]),
              store |-> r.store, idgen |-> r.idgen, inserts |-> 1]

\* variant: the route requires the fields but takes any string as email
post_leads_any_email(body, db_module, docs, idgen, fault) ==
    IF body.name = None \/ body.email = None
    THEN [resp |-> Response(422, [detail |-> ValidationErrors(body)]),
          store |-> docs, idgen |-> idgen, inserts |-> 0]
    ELSE create_lead(Lead(body), db_module, docs, idgen, fault)

\* the route: the body is validated against Lead before create_lead runs
post_leads(body, db_module, docs, idgen, fault) ==
    IF ValidationErrors(body) # {}
    THEN [resp |-> Response(422, [detail |-> ValidationErrors(body)]),
          store |-> docs, idgen |-> idgen, inserts |-> 0]
    ELSE create_lead(Lead(body), db_module, docs, idgen, fault)

Jo == <<"J","o">>
Al == <<"A","l">>

\* request bodies clients post
LeadBodies == {
    [name |-> Some(Jo), email |-> Some(<<"j","o","@","e","x",".","c","o","m">>), phone |-> None],
    [name |-> Some(Al), email |-> Some(<<"a","@","b",".","c">>), phone |-> Some(<<"5","5","5">>)],
    [name |-> Some(Jo), email |-> Some(<<"n","o","t","-","a","n","-","e","m","a","i","l">>), phone |-> None],
    [name |-> Some(Jo), email |-> Some(<<"j","o","@","e","x">>), phone |-> None],
    [name |-> Some(Jo), email |-> Some(<<"@","e","x",".","c","o","m">>), phone |-> None],
    [name |-> Some(Jo), email |-> Some(<<"j","@","o","@","e",".","c">>), phone |-> None],
    [name |-> Some(Jo), email |-> None, phone |-> None],
    [name |-> None, email |-> Some(<<"j","o","@","e","x",".","c","o","m">>), phone |-> None],
    [name |-> None, email |-> Some(<<"n","o","t">>), phone |-> None] }

PostLeads(body, fault) ==
    LET r == post_leads(body, database, store, nextId, fault)
    IN  /\ req = NoRequest
        /\ Len(r.store["lead"]) <= MaxLeads
        /\ req' = Request("POST /api/leads", body, fault)
        /\ resp' = r.resp
        /\ store' = r.store
        /\ nextId' = r.idgen
        /\ inserts' = r.inserts
        /\ accepted' = IF r.resp.status = 200 THEN accepted + 1 ELSE accepted
        /\ UNCHANGED <<PROGRAMS, SCHEDULE, environ, database, initial>>

-----------------------------------------------------------------------------
(* Diagnostics handler *)

\* a status string: a fixed label followed by an interpolated text
Text(label, tail) == [label |-> label, tail |-> tail]

\* os.getenv(name)
getenv(env, name) == env[name]

\* slice length of collections[:10]
CollectionsShown == 10

\* the name of the i-th collection
CollName(i) == <<"c">> \o StrOfNat(i)

\* what db.list_collection_names() does on one call: a list or an exception
Listings ==
    {[raised |-> None, value |-> [i \in 1..n |-> CollName(i)]] : n \in 0..MaxColls}
    \cup {[raised |-> None, value |-> [i \in 1..n |-> CollName(n + 1 - i)]] : n \in 2..MaxColls}
    \cup {[raised |-> Some(e), value |-> <<>>] : e \in DriverErrors}

\* exception classes of the except clauses around list_collection_names()
InnerExcept == {"Exception"}

\* variant: only `except ImportError` around the import of db
OuterExceptImportOnly == {"ImportError"}

\* exception classes of the except clauses around the import of db
OuterExcept == {"ImportError", "Exception"}

Caught(e, clauses) == \E c \in clauses : IsInstance(e.cls, c)

\* the response dict as first built
InitialResponse ==
    [backend |-> "[ok] Running",
     database |-> Text("[x] Not Available", <<>>),
     database_url |-> None,
     database_name |-> None,
     connection_status |-> "Not Connected",
     collections |-> <<>>]

\* variant: collections is the whole listing
WithHandleUnsliced(response, db, listing) ==
    LET r1 == [response EXCEPT
                  !.database = Text("[ok] Available", <<>>),
                  !.database_url = Some("[ok] Configured"),
                  !.database_name = IF db.name # None THEN db.name ELSE Some("[ok] Connected"),
                  !.connection_status = "Connected"]
    IN  IF listing.raised = None
        THEN [raised |-> None,
              response |-> [r1 EXCEPT !.collections = listing.value,
                                      !.database = Text("[ok] Connected & Working", <<>>)]]
        ELSE [raised |-> None,
              response |-> [r1 EXCEPT !.database =
                               Text("[!] Connected but Error: ",
                                    Take(Str(listing.raised[1]), ErrorTextLen))]]

\* the block under `if db is not None`, up to and including the inner try
WithHandle(response, db, listing) ==
    LET r1 == [response EXCEPT
                  !.database = Text("[ok] Available", <<>>),
                  !.database_url = Some("[ok] Configured"),
                  !.database_name = IF db.name # None THEN db.name ELSE Some("[ok] Connected"),
                  !.connection_status = "Connected"]
    IN  IF listing.raised = None
        THEN [raised |-> None,
              response |-> [r1 EXCEPT !.collections = Take(listing.value, CollectionsShown),
                                      !.database = Text("[ok] Connected & Working", <<>>)]]
        ELSE IF Caught(listing.raised[1], InnerExcept)
        THEN [raised |-> None,
              response |-> [r1 EXCEPT !.database =
                               Text("[!] Connected but Error: ",
                                    Take(Str(listing.raised[1]), ErrorTextLen))]]
        ELSE [raised |-> listing.raised, response |-> r1]

\* the outer try block with its except clauses
ProbeDatabase(response, db_module, listing) ==
    LET body ==
            IF db_module.import # "ok"
            THEN [raised |-> Some(Raise(db_module.import, <<Msg(ErrorTextLen + 1)>>)),
                  response |-> response]
            ELSE IF db_module.db # None
            THEN WithHandle(response, db_module.db[1], listing)
            ELSE [raised |-> None,
                  response |-> [response EXCEPT
                                   !.database = Text("[!] Available but not initialized", <<>>)]]
    IN  IF body.raised = None THEN body
        ELSE IF ~Caught(body.raised[1], OuterExcept) THEN body
        ELSE IF IsInstance(body.raised[1].cls, "ImportError")
        THEN [raised |-> None,
              response |-> [body.response EXCEPT !.database =
                               Text("[x] Database module not found (run enable-database first)", <<>>)]]
        ELSE [raised |-> None,
              response |-> [body.response EXCEPT !.database =
                               Text("[x] Error: ", Take(Str(body.raised[1]), ErrorTextLen))]]

\* variant: the variables are tested with `is not None`
ReportEnvironmentIsNotNone(response, env) ==
    [response EXCEPT
        !.database_url = IF getenv(env, "DATABASE_URL") # None
                         THEN Some("[ok] Set") ELSE Some("[x] Not Set"),
        !.database_name = IF getenv(env, "DATABASE_NAME") # None
                          THEN Some("[ok] Set") ELSE Some("[x] Not Set")]

\* the two assignments from the environment that end the handler
ReportEnvironment(response, env) ==
    [response EXCEPT
        !.database_url = IF Truthy(getenv(env, "DATABASE_URL"))
                         THEN Some("[ok] Set") ELSE Some("[x] Not Set"),
        !.database_name = IF Truthy(getenv(env, "DATABASE_NAME"))
                          THEN Some("[ok] Set") ELSE Some("[x] Not Set")]

test_database(db_module, env, listing) ==
    LET probed == ProbeDatabase(InitialResponse, db_module, listing)
    IN  IF probed.raised # None
        THEN Response(500, [detail |-> "Internal Server Error"])
        ELSE Response(200, ReportEnvironment(probed.response, env))

TestDatabase(listing) ==
    /\ req = NoRequest
    /\ req' = Request("GET /test", None, listing)
    /\ resp' = test_database(database, environ, listing)
    /\ inserts' = 0
    /\ UNCHANGED <<PROGRAMS, SCHEDULE, environ, database, store, nextId, initial, accepted>>

-----------------------------------------------------------------------------
(* The process *)

\* the server sends the response of the request it handled and is ready for
\* the next request
SendResponse ==
    /\ req # NoRequest
    /\ req' = NoRequest
    /\ resp' = NoResponse
    /\ inserts' = 0
    /\ UNCHANGED <<PROGRAMS, SCHEDULE, environ, database, store, nextId, initial, accepted>>

\* values of an environment variable: unset, empty, set
EnvValues == {None, Some(<<>>), Some(<<"m","o","n","g","o">>)}

\* states of the database module at import: no name `db`, an import that
\* raises something else, db = None, and a live handle with or without .name
DatabaseStates == {
    [import |-> "ImportError", db |-> None],
    [import |-> "RuntimeError", db |-> None],
    [import |-> "ok", db |-> None],
    [import |-> "ok", db |-> Some([name |-> Some("gym")])],
    [import |-> "ok", db |-> Some([name |-> None])] }

\* a record the store holds before the process starts
OldLead ==
    [_id |-> StrOfNat(0), name |-> Al, email |-> <<"a","@","b",".","c">>, phone |-> None]

Init ==
    /\ PROGRAMS = InitPrograms
    /\ SCHEDULE = InitSchedule
    /\ environ \in [{"DATABASE_URL", "DATABASE_NAME"} -> EnvValues]
    /\ database \in DatabaseStates
    /\ store \in {[lead |-> <<>>], [lead |-> <<OldLead>>]}
    /\ nextId = 1
    /\ initial = Len(store["lead"])
    /\ accepted = 0
    /\ req = NoRequest
    /\ resp = NoResponse
    /\ inserts = 0

Next ==
    \/ ReadRoot
    \/ Hello
    \/ GetPrograms
    \/ \E day \in DayInputs : GetSchedule(day)
    \/ \E body \in LeadBodies, fault \in {None} \cup {Some(e) : e \in DriverErrors} :
          PostLeads(body, fault)
    \/ \E listing \in Listings : TestDatabase(listing)
    \/ SendResponse

Spec == Init /\ [][Next]_vars

-----------------------------------------------------------------------------
(* Properties *)

\* two strings are equal when letter case is ignored
EqualIgnoringCase(a, b) ==
    /\ Len(a) = Len(b)
    /\ \A i \in 1..Len(a) :
          \/ a[i] = b[i]
          \/ a[i] \in DOMAIN ToLower /\ ToLower[a[i]] = b[i]
          \/ a[i] \in DOMAIN ToUpper /\ ToUpper[a[i]] = b[i]

\* positions of the fixed schedule whose day is `day`, letter case ignored
MatchingEntries(day) ==
    {i \in 1..Len(InitSchedule) : EqualIgnoringCase(InitSchedule[i].day, day)}

\* the k-th smallest member of a set of positions
NthOf(positions, k) ==
    CHOOSE i \in positions : Cardinality({j \in positions : j < i}) = k - 1

IsScheduleRequest == req.endpoint = "GET /api/schedule"
IsProgramsRequest == req.endpoint = "GET /api/programs"
IsLeadRequest == req.endpoint = "POST /api/leads"
IsTestRequest == req.endpoint = "GET /test"

\* C1: a `day` that matches at least one of the 7 fixed schedule entries,
\* letter case ignored, gets exactly the matching entries, in schedule order
\* and nothing else; a request without `day` gets all 7 entries in order.
C1_ScheduleFilter ==
    IsScheduleRequest =>
        /\ req.input = None =>
              /\ resp.status = 200
              /\ Len(resp.body) = 7
              /\ resp.body = InitSchedule
        /\ (req.input # None /\ MatchingEntries(req.input[1]) # {}) =>
              LET hits == MatchingEntries(req.input[1])
              IN  /\ resp.status = 200
                  /\ Len(resp.body) = Cardinality(hits)
                  /\ \A k \in 1..Len(resp.body) : resp.body[k] = InitSchedule[NthOf(hits, k)]

\* a mixed-case spelling of the day that has two entries returns both
C1_Witness ==
    /\ IsScheduleRequest
    /\ req.input = Some(<<"w","E","D">>)
    /\ Len(resp.body) = 2
    /\ resp.body[1].id = "kb-wed-6pm"
    /\ resp.body[2].id = "kids-wed-5pm"

\* C2: a supplied `day` that matches no schedule entry, the empty string
\* included, gets status 200 and an empty sequence.
C2_UnmatchedDayIsEmpty ==
    (IsScheduleRequest /\ req.input # None /\ MatchingEntries(req.input[1]) = {}) =>
        /\ resp.status = 200
        /\ resp.body = <<>>

\* C3: PROGRAMS and SCHEDULE keep their startup value whatever requests were
\* served, and GET /api/programs returns the 3 fixed programs kickboxing,
\* karate, kids in that order.
C3_CatalogFixed ==
    /\ PROGRAMS = InitPrograms
    /\ SCHEDULE = InitSchedule
    /\ IsProgramsRequest =>
          /\ resp.status = 200
          /\ [i \in 1..Len(resp.body) |-> resp.body[i].id] = <<"kickboxing", "karate", "kids">>
          /\ resp.body = InitPrograms

\* the programs are requested after leads were stored
C3_Witness ==
    /\ IsProgramsRequest
    /\ accepted = MaxLeads
    /\ Len(resp.body) = 3

\* C4: a POST /api/leads whose body fails the Lead schema (name missing,
\* email missing or not an email address) is answered 422, makes no call of
\* create_document and leaves the store as it was.
C4_InvalidLeadRejected ==
    [][(req'.endpoint = "POST /api/leads"
          /\ (req'.input.name = None \/ req'.input.email = None
                \/ ~IsEmail(req'.input.email[1])))
        => (resp'.status = 422 /\ inserts' = 0 /\ store' = store /\ nextId' = nextId)]_vars

\* "not-an-email" is rejected while the store is reachable and would accept
C4_Witness ==
    /\ IsLeadRequest
    /\ req.input.name = Some(Jo)
    /\ req.input.email = Some(<<"n","o","t","-","a","n","-","e","m","a","i","l">>)
    /\ Handle(database) # None
    /\ req.external = None
    /\ resp.status = 422

\* C5: a POST /api/leads answered 200 carries the non-empty identifier the
\* store assigned and the fixed message, and its record is the newest of the
\* "lead" collection; the collection holds one record per request answered
\* 200 on top of those it started with.
C5_OneRecordPerAcceptedLead ==
    /\ Len(store["lead"]) = initial + accepted
    /\ \A i, j \in 1..Len(store["lead"]) :
          store["lead"][i]._id = store["lead"][j]._id => i = j
    /\ (IsLeadRequest /\ resp.status = 200) =>
          LET last == store["lead"][Len(store["lead"])]
          IN  /\ Len(store["lead"]) > initial
              /\ Len(resp.body.id) > 0
              /\ resp.body.id = last._id
              /\ resp.body.message = ThanksMessage
              /\ last.name = req.input.name[1]
              /\ last.email = req.input.email[1]

\* two identical submissions were both accepted and stored
C5_Witness ==
    /\ IsLeadRequest
    /\ resp.status = 200
    /\ accepted = 2
    /\ LET n == Len(store["lead"])
       IN  /\ store["lead"][n].email = store["lead"][n - 1].email
           /\ store["lead"][n].name = store["lead"][n - 1].name
           /\ store["lead"][n]._id # store["lead"][n - 1]._id

\* the error create_document raises for the request being served, if any
RaisedByInsert ==
    IF Handle(database) = None THEN Some(NoDatabaseError) ELSE req.external

\* C6: a POST /api/leads with a valid Lead whose insert raises (no database
\* handle, or the driver's insert fails) is answered 500 with detail equal to
\* the string form of the error, whatever its class.
C6_InsertErrorIs500 ==
    (IsLeadRequest /\ ValidationErrors(req.input) = {} /\ RaisedByInsert # None) =>
        /\ resp.status = 500
        /\ resp.body.detail = Str(RaisedByInsert[1])

\* a driver error with a long text, raised with a live handle
C6_Witness ==
    /\ IsLeadRequest
    /\ ValidationErrors(req.input) = {}
    /\ Handle(database) # None
    /\ req.external = Some(Raise("ServerSelectionTimeoutError", <<Msg(MaxMsgLen)>>))
    /\ resp.status = 500
    /\ Len(resp.body.detail) = MaxMsgLen

\* C7: a POST /api/leads calls create_document at most once, is answered
\* 200, 422 or 500, adds exactly one record when answered 200 and none
\* otherwise.
C7_AllOrNothing ==
    [][req'.endpoint = "POST /api/leads" =>
        /\ inserts' <= 1
        /\ resp'.status \in {200, 422, 500}
        /\ resp'.status = 200 => Len(store'["lead"]) = Len(store["lead"]) + 1
        /\ resp'.status # 200 => store' = store]_vars

\* a failed insert: one call, status 500, with records already stored
C7_Witness ==
    /\ IsLeadRequest
    /\ resp.status = 500
    /\ inserts = 1
    /\ req.external # None
    /\ Handle(database) # None
    /\ accepted > 0

\* the status string GET /test shows for the state of the database module
ExpectedDatabaseLabel ==
    IF database.import = "ImportError"
    THEN "[x] Database module not found (run enable-database first)"
    ELSE IF database.import # "ok" THEN "[x] Error: "
    ELSE IF database.db = None THEN "[!] Available but not initialized"
    ELSE IF req.external.raised = None THEN "[ok] Connected & Working"
    ELSE "[!] Connected but Error: "

\* C8: GET /test is answered 200 in every state of the database module
\* (import fails, import raises another error, handle unset, listing
\* succeeds, listing raises), the failure shown as a status string.
C8_TestAlways200 ==
    IsTestRequest =>
        /\ resp.status = 200
        /\ resp.body.backend = "[ok] Running"
        /\ resp.body.database.label = ExpectedDatabaseLabel

\* the listing raises under a live handle
C8_Witness ==
    /\ IsTestRequest
    /\ Handle(database) # None
    /\ req.external.raised # None
    /\ resp.status = 200
    /\ Len(resp.body.database.tail) = 50

\* the status string of an environment variable
ExpectedEnvLabel(name) ==
    IF environ[name] = None \/ environ[name] = Some(<<>>)
    THEN Some("[x] Not Set") ELSE Some("[ok] Set")

\* C9: in the GET /test response database_url is "Not Set" when DATABASE_URL
\* is unset or empty and "Set" otherwise, database_name likewise for
\* DATABASE_NAME, whatever the state of the database handle.
C9_EnvFieldsFollowEnvironment ==
    (IsTestRequest /\ resp.status = 200) =>
        /\ resp.body.database_url = ExpectedEnvLabel("DATABASE_URL")
        /\ resp.body.database_name = ExpectedEnvLabel("DATABASE_NAME")

\* a live handle with DATABASE_URL empty and DATABASE_NAME unset
C9_Witness ==
    /\ IsTestRequest
    /\ Handle(database) # None
    /\ req.external.raised = None
    /\ environ["DATABASE_URL"] = Some(<<>>)
    /\ environ["DATABASE_NAME"] = None
    /\ resp.body.database_url = Some("[x] Not Set")
    /\ resp.body.database_name = Some("[x] Not Set")

\* C10: in the GET /test response collections holds at most 10 names: the
\* first 10 names of the listing (all of them if fewer) in listing order when
\* the handle is set and the listing succeeds, and no name otherwise.
C10_CollectionsAtMostTen ==
    (IsTestRequest /\ resp.status = 200) =>
        /\ Len(resp.body.collections) <= 10
        /\ (Handle(database) # None /\ req.external.raised = None) =>
              /\ Len(resp.body.collections) =
                    IF Len(req.external.value) < 10 THEN Len(req.external.value) ELSE 10
              /\ \A i \in 1..Len(resp.body.collections) :
                    resp.body.collections[i] = req.external.value[i]
        /\ (Handle(database) = None \/ req.external.raised # None) =>
              resp.body.collections = <<>>

\* a listing of more than 10 names, in descending order, is cut to 10
C10_Witness ==
    /\ IsTestRequest
    /\ Handle(database) # None
    /\ req.external.raised = None
    /\ Len(req.external.value) > 10
    /\ req.external.value[1] = CollName(Len(req.external.value))
    /\ Len(resp.body.collections) = 10

====
